---- MODULE Spec2Model ----
(***************************************************************************)
(* Combat resolution and wave progression of the island shooter            *)
(* (game.js as kept in src/modules/island.js, with gameState.js,           *)
(* enemies.js, projectiles.js and weapons.js).                             *)
(*                                                                         *)
(* The program state is carried in one record per JavaScript collection;   *)
(* every handler is an operator from a "world" record (all collections)    *)
(* to the world after the handler, and each action applies one handler to  *)
(* the current world.  Geometry (positions, distances, ray casts) and      *)
(* Math.random() are not state: what they decide is drawn with \E as an    *)
(* input of the handler.  Wall-clock time is counted in units of 100 ms    *)
(* and only setTimeout callbacks depend on it; frames take no time of      *)
(* their own (requestAnimationFrame may run any number of frames, or       *)
(* none, between two timer callbacks).                                     *)
(***************************************************************************)
EXTENDS Integers, Sequences, FiniteSets, TLC

VARIABLES
  gameState,         \* the GameState object (gameState.js)
  heap,              \* enemy objects by identity: id -> enemy record
  enemies,           \* island.js `enemies`: sequence of enemy ids
  activeBoats,       \* enemies.js `activeBoats`: sequence of boat records
  projectiles,       \* island.js `projectiles` (player shots in flight)
  enemyProjectiles,  \* island.js `enemyProjectiles`
  ammoPickups,       \* island.js `ammoPickups`
  weaponPickups,     \* island.js `weaponPickups`
  mp41AmmoPickups,   \* island.js `mp41AmmoPickups`
  timers,            \* pending setTimeout callbacks, in scheduling order
  ui,                \* death sequence / redeploy button state
  restarts,          \* number of restartGame() calls so far (history)
  log                \* what the last handler did, call by call (history)

vars == <<gameState, heap, enemies, activeBoats, projectiles, enemyProjectiles,
          ammoPickups, weaponPickups, mp41AmmoPickups, timers, ui,
          restarts, log>>

----------------------------------------------------------------------------
(* Bounds of the exploration.                                              *)

\* stands for MAX_ENEMIES (20): the cap on the enemies of one wave
MaxEnemies == 2
\* from construction the player shoots only while gameState.wave < MaxWave
MaxWave == 3
\* restartGame is explored at most this many times in one behaviour, and
\* enemies fire only in the lives before the last of these restarts
MaxRestarts == 1
\* a corpse is hit again only while its health is above -MaxOverkill
MaxOverkill == 25
\* enemies fire only while fewer enemy shots than this are alive
MaxEnemyProjectiles == 1
\* the player's missed shots in flight at one time
MaxProjectiles == 1
\* stands for removalDelay (10 s of accumulated deltaTime), in frames
RemovalFrames == 1
\* stands for the boat's removalDelay (5 s of accumulated deltaTime), in frames
BoatRemovalFrames == 1
\* a kill leaves a pickup only while its list holds fewer pickups than this
MaxPickups == 1
MaxSpawnWave == 12
MaxSpawnCap == 21
MaxEnemyDistance == 45
MaxElapsed == 20
MaxAmmo == 2
MaxFailShots == 4
BoardEnemies == 4
CollideEnemies == 3
MaxGrid == 6
MaxFlight == 16

----------------------------------------------------------------------------
(* Program constants.  Durations are in units of 100 ms.                   *)

BASE_ENEMY_HEALTH == 2
MAX_ENEMIES == 20
\* 0.15, in units of 0.01
BASE_ENEMY_SPEED == 15
PLAYER_DAMAGE == 1
AMMO_DROP_AMOUNT == 10
ENEMY_BULLET_DAMAGE == 2
NEXT_WAVE_DELAY == 30
ANNOUNCE_DELAY == 26
KIA_DELAY == 26
MAX_DISTANCE == 100
PROJECTILE_STEP == 6
ENGAGE_DISTANCE == 30
SHOOT_DISTANCE == 15
SHOOTING_COOLDOWN == 15
\* enemies.js applyEnemyCollisions, in units of 10^-8
minSeparation == 100000000
maxDisplacement == 20000000

M1_GARAND == "m1_garand"
MP41 == "mp41"
STANDARD == "standard"

BodyParts == {"head", "body", "leftArm", "rightArm", "leftLeg", "rightLeg"}

Min(a, b) == IF a < b THEN a ELSE b
Max(a, b) == IF a > b THEN a ELSE b

\* Math.round(n / 2) for an integer n >= 0 (half rounds up)
\* half of n rounded down
RoundHalf_Down(n) == n \div 2

RoundHalf(n) == (n + 1) \div 2

----------------------------------------------------------------------------
(* gameState.js: class GameState                                           *)

\* constructor()
NewGameState ==
  [score |-> 0, wave |-> 1, health |-> 100, ammo |-> 50,
   isGameOver |-> FALSE, isPlaying |-> TRUE, isWaveActive |-> FALSE,
   enemiesRemainingInWave |-> 0,
   currentWeapon |-> M1_GARAND, hasMP41 |-> FALSE, mp41Ammo |-> 0,
   isPlayerDeathAnimationPlayed |-> FALSE]

\* reset(): every field the constructor sets; restartGame then clears
\* isPlayerDeathAnimationPlayed itself
reset(gs) ==
  [gs EXCEPT !.score = 0, !.wave = 1, !.health = 100, !.ammo = 50,
             !.isGameOver = FALSE, !.isPlaying = TRUE, !.isWaveActive = FALSE,
             !.enemiesRemainingInWave = 0,
             !.currentWeapon = M1_GARAND, !.hasMP41 = FALSE, !.mp41Ammo = 0]

\* nextWave()
nextWave(gs) == [gs EXCEPT !.wave = gs.wave + 1]

\* a death test that fires on any damage
takeDamageDies_Early(gs, damage) == damage > 0 /\ ~gs.isGameOver

\* takeDamage(damage, onDeath): whether onDeath is called, and the new state
takeDamageDies(gs, damage) ==
  Max(0, gs.health - damage) <= 0 /\ ~gs.isGameOver

takeDamage(gs, damage) ==
  LET h == Max(0, gs.health - damage)
  IN  IF takeDamageDies(gs, damage)
      THEN [gs EXCEPT !.health = h, !.isGameOver = TRUE, !.isPlaying = FALSE]
      ELSE [gs EXCEPT !.health = h]

\* getCurrentAmmo()
getCurrentAmmo(gs) == IF gs.currentWeapon = MP41 THEN gs.mp41Ammo ELSE gs.ammo

\* useAmmo(amount)
useAmmo(gs, amount) ==
  IF gs.currentWeapon = MP41
  THEN IF gs.mp41Ammo >= amount
       THEN [gs EXCEPT !.mp41Ammo = gs.mp41Ammo - amount] ELSE gs
  ELSE IF gs.ammo >= amount
       THEN [gs EXCEPT !.ammo = gs.ammo - amount] ELSE gs

\* an addAmmo that puts every round on the standard ledger
addAmmo_Standard(gs, amount, ammoType) ==
  [gs EXCEPT !.ammo = gs.ammo + amount]

\* addAmmo(amount, ammoType = STANDARD)
addAmmo(gs, amount, ammoType) ==
  IF ammoType = MP41
  THEN [gs EXCEPT !.mp41Ammo = gs.mp41Ammo + amount]
  ELSE [gs EXCEPT !.ammo = gs.ammo + amount]

\* switchWeapon(weaponType): the new state (unchanged when refused)
switchWeaponResult(gs, weaponType) == ~(weaponType = MP41 /\ ~gs.hasMP41)

switchWeapon(gs, weaponType) ==
  IF weaponType = MP41 /\ ~gs.hasMP41 THEN gs
  ELSE [gs EXCEPT !.currentWeapon = weaponType]

\* collectWeapon(weaponType)
collectWeapon(gs, weaponType) ==
  IF weaponType = MP41
  THEN [gs EXCEPT !.hasMP41 = TRUE, !.currentWeapon = MP41]
  ELSE gs

\* restoreWaveCompletion(): health += round(missing * 0.5), ammo += 15
healthToRestore(gs) == RoundHalf(100 - gs.health)

restoreWaveCompletion(gs) ==
  [gs EXCEPT !.health = Min(100, gs.health + healthToRestore(gs)),
             !.ammo = gs.ammo + 15]

----------------------------------------------------------------------------
(* The world: all collections of the game module, threaded through the     *)
(* handlers.  `log` collects what the running handler does.                *)

World ==
  [gs |-> gameState, heap |-> heap, enemies |-> enemies, boats |-> activeBoats,
   projectiles |-> projectiles, enemyProjectiles |-> enemyProjectiles,
   ammoPickups |-> ammoPickups, weaponPickups |-> weaponPickups,
   mp41AmmoPickups |-> mp41AmmoPickups, timers |-> timers, ui |-> ui,
   restarts |-> restarts, log |-> <<>>]

Logged(w, entry) == [w EXCEPT !.log = Append(w.log, entry)]

\* the one element of a singleton; {f(x) : x \in {w}} is f applied to the
\* world w that the statements before f have left
The(S) == CHOOSE r \in S : TRUE

\* setTimeout(callback, delay): the callback is queued behind the pending ones
setTimeout(w, kind, delay) ==
  [w EXCEPT !.timers = Append(w.timers,
                              [kind |-> kind, due |-> delay, epoch |-> w.restarts])]

\* ids of the sequence s
Range(s) == {s[i] : i \in DOMAIN s}

\* the sequence s without the positions whose index is in drop
RECURSIVE Without(_, _)
Without(s, drop) ==
  IF s = <<>> THEN <<>>
  ELSE LET n == Len(s)
           rest == Without(SubSeq(s, 1, n - 1), drop)
       IN  IF n \in drop THEN rest ELSE Append(rest, s[n])

\* the enemies of the list that are not dead
LiveIn(h, list) == {id \in Range(list) : ~h[id].isDead}

\* objects no collection refers to any more are garbage
Reachable(w) ==
  Range(w.enemies) \cup UNION {Range(w.boats[i].enemies) : i \in DOMAIN w.boats}

Collect(w) == [id \in (DOMAIN w.heap) \cap Reachable(w) |-> w.heap[id]]

\* n identities not in use, smallest first
RECURSIVE FreshIds(_, _)
FreshIds(used, n) ==
  IF n = 0 THEN <<>>
  ELSE LET id == CHOOSE k \in 1..(Cardinality(used) + 1) : k \notin used
       IN  <<id>> \o FreshIds(used \cup {id}, n - 1)

----------------------------------------------------------------------------
(* enemies.js: createEnemy, createBoat, spawnWave                          *)

\* createEnemy as completed by createBoat: aboard, not disembarked; `acted`
\* records that updateEnemies has run its behaviour code (movement,
\* strafing, collisions, animation) for the enemy (history)
createEnemy(health) ==
  [health |-> health, isDead |-> FALSE, deadTime |-> 0,
   boat |-> TRUE, disembarked |-> FALSE, dismemberedParts |-> {},
   acted |-> FALSE]

\* createBoat: the boat record that goes to activeBoats
createBoat(ids) ==
  [enemies |-> ids, hasReachedShore |-> FALSE, enemiesDisembarked |-> FALSE,
   removalTimer |-> 0]

CeilDiv(a, b) == (a + b - 1) \div b

enemiesForWave(wave, maxEnemies) == Min(wave * 2 + 3, maxEnemies)

\* Math.round(baseHealth * (1 + (wave - 1) * 0.2))
waveHealth(wave, baseHealth) == (2 * baseHealth * (wave + 4) + 5) \div 10

\* baseSpeed * (1 + (wave - 1) * 0.1), in tenths of the unit of baseSpeed
waveSpeed(wave, baseSpeed) == baseSpeed * (wave + 9)

boatsForWave(wave, n) == Min(CeilDiv(wave, 2) + 1, CeilDiv(n, 3))

\* a distribution that forgets the remainder
enemiesForBoat_NoRemainder(i, n, boats) == n \div boats

\* enemies of boat i (from 0): the remainder goes one each to the first boats
enemiesForBoat(i, n, boats) ==
  (n \div boats) + (IF i < n - (n \div boats) * boats THEN 1 ELSE 0)

\* number of enemies in the boats before boat i
RECURSIVE boatOffset(_, _, _)
boatOffset(i, n, boats) ==
  IF i = 0 THEN 0
  ELSE boatOffset(i - 1, n, boats) + enemiesForBoat(i - 1, n, boats)

\* spawnWave: replaces activeBoats, creates the enemies; `ids` is the
\* returned array allEnemies
spawnWave(w, wave, maxEnemies, baseHealth) ==
  LET n      == enemiesForWave(wave, maxEnemies)
      health == waveHealth(wave, baseHealth)
      nb     == boatsForWave(wave, n)
  IN  The({LET boat(i) == createBoat(SubSeq(ids, boatOffset(i, n, nb) + 1,
                                            boatOffset(i + 1, n, nb)))
               new == [id \in Range(ids) |-> createEnemy(health)]
           IN  [w   |-> [w EXCEPT
                           !.boats = [i \in 1..nb |-> boat(i - 1)],
                           !.heap = [id \in (DOMAIN w.heap) \cup Range(ids) |->
                                       IF id \in Range(ids) THEN new[id]
                                       ELSE w.heap[id]]],
                ids |-> ids] :
           ids \in {FreshIds(DOMAIN w.heap, n)}})

----------------------------------------------------------------------------
(* island.js: spawnNewWave, showWaveAnnouncement and its callback          *)

\* showWaveAnnouncement(wave, callback): the callback runs 100 + 2000 + 500 ms
\* later
showWaveAnnouncement(w) == setTimeout(w, "announce", ANNOUNCE_DELAY)

spawnNewWave(w) ==
  LET w1 == Logged(w, [e |-> "spawnNewWave",
                       live |-> Cardinality(LiveIn(w.heap, w.enemies))])
      w2 == [w1 EXCEPT !.enemies = <<>>, !.gs = nextWave(w.gs)]
  IN  showWaveAnnouncement(w2)

\* the callback given to showWaveAnnouncement
spawnCallbackWith(w, maxEnemies) ==
  The({LET all == w.enemies \o sw.ids
           w1 == Logged(sw.w, [e |-> "spawn",
                               live |-> Cardinality(LiveIn(w.heap, w.enemies)),
                               before |-> Len(w.enemies), added |-> Len(sw.ids),
                               wave |-> w.gs.wave])
       IN  [w1 EXCEPT !.enemies = all,
                      !.gs = [w1.gs EXCEPT !.enemiesRemainingInWave = Len(all),
                                           !.isWaveActive = TRUE]] :
       sw \in {spawnWave(w, w.gs.wave, maxEnemies, BASE_ENEMY_HEALTH)}})

\* with the model's cap in place of MAX_ENEMIES
spawnCallback(w) == spawnCallbackWith(w, MaxEnemies)

----------------------------------------------------------------------------
(* island.js: handleEnemyHit and what it calls                             *)

\* enemies.js dismemberEnemyPart: a part already marked is refused, any
\* other part name is marked before the mesh is looked up
dismemberEnemyPart(enemy, bodyPart) ==
  IF bodyPart \in enemy.dismemberedParts THEN enemy
  ELSE [enemy EXCEPT !.dismemberedParts = @ \cup {bodyPart}]

\* the parts the switch of dismemberEnemyPart knows
Detachable == {"head", "leftArm", "rightArm", "leftLeg", "rightLeg"}

\* a result that does not look at dismemberedParts
dismemberResult_NoCheck(enemy, bodyPart, mesh) ==
  bodyPart \in Detachable /\ mesh

\* what dismemberEnemyPart returns; mesh: the part's mesh is there and the
\* effects do not throw
dismemberResult(enemy, bodyPart, mesh) ==
  /\ bodyPart \notin enemy.dismemberedParts
  /\ bodyPart \in Detachable
  /\ mesh

\* one call of dismemberEnemyPart as the log keeps it
dismemberCall(enemy, bodyPart, mesh) ==
  [e |-> "dismember", part |-> bodyPart,
   was |-> bodyPart \in enemy.dismemberedParts,
   ret |-> dismemberResult(enemy, bodyPart, mesh),
   same |-> dismemberEnemyPart(enemy, bodyPart) = enemy]

\* the switch on bodyPart
hitDamage(bodyPart) ==
  CASE bodyPart = "head" -> PLAYER_DAMAGE * 100
    [] bodyPart = "body" -> PLAYER_DAMAGE * 50
    [] bodyPart \in {"leftArm", "rightArm"} -> PLAYER_DAMAGE * 30
    [] bodyPart \in {"leftLeg", "rightLeg"} -> PLAYER_DAMAGE * 25
    [] OTHER -> PLAYER_DAMAGE * 25

killScore(isHeadshot) == IF isHeadshot THEN 150 ELSE 100

\* the kill branch is taken when the hit leaves no health and the enemy was
\* not dead yet
\* a kill test that misses an enemy left with exactly 0 health
killed_Strict(enemy) == enemy.health < 0 /\ ~enemy.isDead

killed(enemy) == enemy.health <= 0 /\ ~enemy.isDead

\* a counter update that forgets the kill
countKill_Skip(remaining) == remaining

\* if (enemiesRemainingInWave > 0) enemiesRemainingInWave--
countKill(remaining) == IF remaining > 0 THEN remaining - 1 ELSE remaining

\* enemies.js createAmmoPickup
createAmmoPickup(amount) == [amount |-> amount, collected |-> FALSE]

\* createEnemyDrops(scene, position, wave, isHeadshot): imported from
\* enemies.js, which does not define it; it returns fresh, uncollected
\* pickups, nw weapon pickups and nm MP41 ammo pickups
createEnemyDrops(nw, nm) ==
  [weaponPickups   |-> [i \in 1..nw |-> [type |-> MP41, collected |-> FALSE]],
   mp41AmmoPickups |-> [i \in 1..nm |-> [amount |-> AMMO_DROP_AMOUNT,
                                         type |-> MP41, collected |-> FALSE]]]

\* r holds what Math.random() and the drop table decide in this call:
\* r.detach, r.dismember, r.ammoDrop, r.mesh \in BOOLEAN, r.nw, r.nm \in Nat;
\* r.fail names the effect call that throws, if any: "hitMarker"
\* (showHitMarker, showHeadshotMessage), "hitAnimation"
\* (triggerEnemyHitAnimation), "deathAnimation" (triggerEnemyDeathAnimation),
\* "ammoPickup" (createAmmoPickup).  None of these calls is inside a try
\* block, so the exception leaves handleEnemyHit with what was assigned so
\* far.  The two dismemberEnemyPart calls are caught (r.mesh).
handleEnemyHit(w, id, bodyPart, r) ==
  LET enemy0     == w.heap[id]
      isHeadshot == bodyPart = "head"
      enemy1     == IF isHeadshot /\ r.detach
                    THEN dismemberEnemyPart(enemy0, "head") ELSE enemy0
      enemy2     == [enemy1 EXCEPT !.health = enemy1.health - hitDamage(bodyPart)]
      kills      == killed(enemy2)
      enemy3     == IF kills THEN [enemy2 EXCEPT !.isDead = TRUE, !.deadTime = 0]
                    ELSE enemy2
      rem0       == w.gs.enemiesRemainingInWave
      gs1        == IF kills
                    THEN [w.gs EXCEPT
                            !.enemiesRemainingInWave = countKill(rem0),
                            !.score = w.gs.score + killScore(isHeadshot)]
                    ELSE w.gs
      drops      == createEnemyDrops(r.nw, r.nm)
      enemy4     == IF ~isHeadshot /\ r.dismember
                    THEN dismemberEnemyPart(enemy3, bodyPart) ELSE enemy3
      made       == IF ~kills THEN <<>>
                    ELSE (IF r.ammoDrop THEN <<"ammo">> ELSE <<>>)
                         \o [i \in 1..r.nw |-> "weapon"]
                         \o [i \in 1..r.nm |-> "mp41"]
      d1         == IF isHeadshot /\ r.detach
                    THEN <<dismemberCall(enemy0, "head", r.mesh)>> ELSE <<>>
      d2         == IF ~isHeadshot /\ r.dismember
                    THEN <<dismemberCall(enemy3, bodyPart, r.mesh)>> ELSE <<>>
      thrown     == [e |-> "throw", from |-> r.fail, id |-> id,
                     part |-> bodyPart, health |-> enemy0.health,
                     wasDead |-> enemy0.isDead,
                     remaining |-> rem0, score |-> w.gs.score]
  IN  IF r.fail = "hitMarker"
      THEN Logged(w, thrown)
      ELSE IF r.fail = "hitAnimation"
      THEN Logged([w EXCEPT !.log = @ \o d1, !.heap[id] = enemy2], thrown)
      ELSE IF r.fail = "deathAnimation" /\ kills
      THEN Logged([w EXCEPT !.log = @ \o d1,
                            !.heap[id] = enemy3,
                            !.gs.enemiesRemainingInWave = countKill(rem0)],
                  thrown)
      ELSE IF r.fail = "ammoPickup" /\ kills /\ r.ammoDrop
      THEN Logged([w EXCEPT !.log = @ \o d1,
                            !.heap[id] = enemy3,
                            !.gs = gs1],
                  thrown)
      ELSE
      [w EXCEPT
                !.log = @ \o d1
                          \o [i \in DOMAIN made |-> [e |-> "drop", kind |-> made[i]]]
                          \o d2,
                !.heap = [w.heap EXCEPT ![id] = enemy4],
                !.gs = gs1,
                !.ammoPickups =
                   IF kills /\ r.ammoDrop
                   THEN Append(@, createAmmoPickup(AMMO_DROP_AMOUNT)) ELSE @,
                !.weaponPickups =
                   IF kills THEN @ \o drops.weaponPickups ELSE @,
                !.mp41AmmoPickups =
                   IF kills THEN @ \o drops.mp41AmmoPickups ELSE @]

----------------------------------------------------------------------------
(* island.js: shoot                                                        *)

\* enemies.js createProjectile: a player shot in flight
createProjectile == [distance |-> 0]

\* checkDirectHit looks only at enemies that are not dead and have health
DirectTargets(w) ==
  {id \in Range(w.enemies) : ~w.heap[id].isDead /\ w.heap[id].health > 0}

\* shoot(): target 0 is a shot that meets no enemy; the fire-rate gate is
\* open in the calls modelled
\* one call of shoot as the log keeps it; fired: the call got past its
\* early returns and assigned lastFireTime
shootCall(w, fired) ==
  [e |-> "shoot", ammo |-> getCurrentAmmo(w.gs), fired |-> fired]

\* a shoot that does not look at the ammo count
shoot_NoAmmoCheck(w, target, bodyPart, r) ==
  IF w.gs.isGameOver THEN w
  ELSE LET w1 == Logged([w EXCEPT !.gs = useAmmo(w.gs, 1)], shootCall(w, TRUE))
       IN  IF target # 0
           THEN handleEnemyHit(w1, target, bodyPart, r)
           ELSE [w1 EXCEPT !.projectiles = Append(@, createProjectile)]

\* shoot(isAutomatic), for a call that the fire-rate test lets through
shoot(w, target, bodyPart, r) ==
  IF w.gs.isGameOver THEN w
  ELSE IF getCurrentAmmo(w.gs) <= 0 THEN Logged(w, shootCall(w, FALSE))
  ELSE LET w1 == Logged([w EXCEPT !.gs = useAmmo(w.gs, 1)], shootCall(w, TRUE))
       IN  IF target # 0
           THEN handleEnemyHit(w1, target, bodyPart, r)
           ELSE [w1 EXCEPT !.projectiles = Append(@, createProjectile)]

----------------------------------------------------------------------------
(* island.js: showGameOver, the death sequence, restartGame                *)

\* createPlayerDeathEffect(callback) starts the death animation unless it has
\* played; showKilledInActionAnimation shows the screen whose redeploy button
\* becomes clickable 100 + 500 + 2000 ms later
showKilledInActionAnimation(w) ==
  setTimeout([w EXCEPT !.ui.kia = "shown"], "kia", KIA_DELAY)

createPlayerDeathEffect(w) ==
  IF w.gs.isPlayerDeathAnimationPlayed THEN showKilledInActionAnimation(w)
  ELSE [w EXCEPT !.gs.isPlayerDeathAnimationPlayed = TRUE,
                 !.ui.deathEffect = TRUE]

showGameOver(w) ==
  createPlayerDeathEffect(
    Logged([w EXCEPT !.gs.isGameOver = TRUE], [e |-> "showGameOver"]))

\* restartGame(): reset, overlays removed, four of the arrays cleared, first
\* wave started
restartGame(w) ==
  LET w1 == [w EXCEPT !.gs = [reset(w.gs) EXCEPT
                                !.isPlayerDeathAnimationPlayed = FALSE],
                      !.ui.kia = "none",
                      !.restarts = w.restarts + 1,
                      !.enemies = <<>>,
                      !.projectiles = <<>>,
                      !.enemyProjectiles = <<>>,
                      !.ammoPickups = <<>>]
  IN  spawnNewWave(Logged(w1, [e |-> "restartGame"]))

----------------------------------------------------------------------------
(* enemies.js: updateBoats, disembarkEnemies, updateEnemies                *)

\* disembarkEnemies(boat): every enemy of the boat that is not dead is
\* marked disembarked at once (the staggered timeouts only move the meshes)
disembarkEnemies(h, boat) ==
  [id \in DOMAIN h |->
     IF id \in Range(boat.enemies) /\ ~h[id].isDead
     THEN [h[id] EXCEPT !.disembarked = TRUE] ELSE h[id]]

\* an updateBoats turn that drops a boat as soon as it is ashore
updateBoat_Eager(h, boat, arrives) ==
  IF ~boat.hasReachedShore
  THEN IF arrives
       THEN [heap |-> disembarkEnemies(h, boat), keep |-> TRUE, call |-> TRUE,
             boat |-> [boat EXCEPT !.hasReachedShore = TRUE]]
       ELSE [heap |-> h, keep |-> TRUE, call |-> FALSE, boat |-> boat]
  ELSE [heap |-> h, keep |-> FALSE, call |-> FALSE, boat |-> boat]

\* one boat of updateBoats; `arrives` says whether it comes within 2 units
\* of its target in this frame; call: disembarkEnemies was called
updateBoat(h, boat, arrives) ==
  IF ~boat.hasReachedShore
  THEN IF arrives
       THEN [heap |-> disembarkEnemies(h, boat), keep |-> TRUE, call |-> TRUE,
             boat |-> [boat EXCEPT !.hasReachedShore = TRUE]]
       ELSE [heap |-> h, keep |-> TRUE, call |-> FALSE, boat |-> boat]
  ELSE IF ~boat.enemiesDisembarked
  THEN [heap |-> h, keep |-> TRUE, call |-> FALSE,
        boat |-> IF \A id \in Range(boat.enemies) :
                      h[id].disembarked \/ h[id].isDead
                 THEN [boat EXCEPT !.enemiesDisembarked = TRUE] ELSE boat]
  ELSE [heap |-> h, call |-> FALSE,
        keep |-> ~(boat.removalTimer + 1 >= BoatRemovalFrames),
        boat |-> [boat EXCEPT !.removalTimer = boat.removalTimer + 1]]

\* updateBoats: from the last boat to the first; `arrive` is the set of
\* positions of the boats that reach the shore in this frame
RECURSIVE updateBoatsFrom(_, _, _)
updateBoatsFrom(w, i, arrive) ==
  IF i = 0 THEN w
  ELSE LET u == updateBoat(w.heap, w.boats[i], i \in arrive)
           w1 == [w EXCEPT !.heap = u.heap,
                           !.boats = IF u.keep THEN [@ EXCEPT ![i] = u.boat]
                                     ELSE Without(@, {i})]
           w2 == IF u.call
                 THEN Logged(w1, [e |-> "disembarkEnemies",
                                  boat |-> w.boats[i].enemies])
                 ELSE w1
       IN  The({updateBoatsFrom(x, i - 1, arrive) : x \in {w2}})

updateBoats(w, arrive) == updateBoatsFrom(w, Len(w.boats), arrive)

\* enemies.js createEnemyProjectile: an enemy shot; `hits` counts the times it
\* damaged the player (history)
createEnemyProjectile == [hits |-> 0]

\* an updateEnemies that skips no living enemy
skipped_Never(enemy) == FALSE

\* the test that keeps updateEnemies away from an enemy still aboard
skipped(enemy) == enemy.boat /\ ~enemy.disembarked

\* a removal test that lets a corpse lie for one more pass
removable_Late(deadTime) == deadTime > RemovalFrames + 1

\* enemy.deadTime > enemy.removalDelay, in passes
removable(deadTime) == deadTime > RemovalFrames

\* one turn of the loop as the log keeps it; acts: the turn got past the
\* two `continue` statements to the behaviour code
visit(id, enemy, acts) ==
  [e |-> "visit", id |-> id, dead |-> enemy.isDead, acts |-> acts]

\* updateEnemies: from the last enemy to the first; corpses age and are
\* spliced out, embarked enemies are skipped, the enemies of `shooters` are
\* in shooting range with their cooldown over
RECURSIVE updateEnemiesFrom(_, _, _)
updateEnemiesFrom(w, i, shooters) ==
  IF i = 0 THEN w
  ELSE LET id == w.enemies[i]
           enemy == w.heap[id]
           w1 == IF enemy.isDead
                 THEN [w EXCEPT !.heap[id].deadTime = enemy.deadTime + 1,
                                !.enemies = IF removable(enemy.deadTime + 1)
                                            THEN Without(@, {i}) ELSE @]
                 ELSE IF skipped(enemy) THEN w
                 ELSE IF id \in shooters
                 THEN Logged([w EXCEPT !.heap[id].acted = TRUE,
                                       !.enemyProjectiles =
                                          Append(@, createEnemyProjectile)],
                             [e |-> "enemyFire",
                              embarked |-> enemy.boat /\ ~enemy.disembarked,
                              dead |-> enemy.isDead])
                 ELSE [w EXCEPT !.heap[id].acted = TRUE]
           acts == ~enemy.isDead /\ ~skipped(enemy)
       IN  The({updateEnemiesFrom(x, i - 1, shooters) :
                  x \in {Logged(w1, visit(id, enemy, acts))}})

updateEnemies(w, shooters) == updateEnemiesFrom(w, Len(w.enemies), shooters)

\* what one acting enemy does at distance d from the player
enemyMove(d) ==
  IF d < ENGAGE_DISTANCE
  THEN IF d > SHOOT_DISTANCE THEN "approach" ELSE "strafe"
  ELSE "none"

\* whether it fires; elapsed: currentTime - enemy.lastShootTime
enemyFires(d, elapsed) ==
  /\ d < ENGAGE_DISTANCE
  /\ ~(d > SHOOT_DISTANCE)
  /\ elapsed > SHOOTING_COOLDOWN

\* the enemies updateEnemies lets act: listed, alive, ashore
Active(w) ==
  {id \in Range(w.enemies) :
     ~w.heap[id].isDead /\ ~(w.heap[id].boat /\ ~w.heap[id].disembarked)}

----------------------------------------------------------------------------
(* island.js: updateEnemyProjectiles                                       *)

\* one enemy shot; what the clock and the geometry decide for it is
\* outcome: "expire" (update() returns false), "tree", "hit" (the player) or
\* "fly".  A shot that hits stays in the list.
RECURSIVE updateEnemyProjectilesFrom(_, _, _, _)
updateEnemyProjectilesFrom(w, i, outcome, kept) ==
  IF i > Len(w.enemyProjectiles) THEN [w EXCEPT !.enemyProjectiles = kept]
  ELSE LET p == w.enemyProjectiles[i]
           damages == outcome[i] = "hit" /\ ~w.gs.isGameOver
           dies == damages /\ takeDamageDies(w.gs, ENEMY_BULLET_DAMAGE)
           w1 == IF damages
                 THEN Logged([w EXCEPT !.gs = takeDamage(w.gs, ENEMY_BULLET_DAMAGE)],
                             [e |-> "takeDamage", shot |-> i, hits |-> p.hits,
                              health |-> Max(0, w.gs.health - ENEMY_BULLET_DAMAGE),
                              onDeath |-> dies])
                 ELSE w
           w2 == IF dies THEN showGameOver(w1) ELSE w1
           p1 == IF damages THEN [p EXCEPT !.hits = Min(p.hits + 1, 2)] ELSE p
       IN  The({updateEnemyProjectilesFrom(
                    x, i + 1, outcome,
                    IF outcome[i] \in {"expire", "tree"} THEN kept
                    ELSE Append(kept, p1)) : x \in {w2}})

updateEnemyProjectiles(w, outcome) ==
  updateEnemyProjectilesFrom(w, 1, outcome, <<>>)

----------------------------------------------------------------------------
(* island.js animate: the wave-completion check                            *)

\* showWaveCompletedMessage(wave) applies the reward
showWaveCompletedMessage(w) ==
  Logged([w EXCEPT !.gs = restoreWaveCompletion(w.gs)],
         [e |-> "reward", wave |-> w.gs.wave,
          healthRestored |-> healthToRestore(w.gs), ammoRestored |-> 15])

\* a completion branch that leaves the wave marked active
waveCheck_NoLatch(w) ==
  IF w.gs.isWaveActive /\ w.gs.enemiesRemainingInWave = 0
  THEN setTimeout(showWaveCompletedMessage(
                    Logged(w, [e |-> "waveComplete", wave |-> w.gs.wave,
                               live |-> Cardinality(LiveIn(w.heap, w.enemies)),
                               gameOver |-> w.gs.isGameOver])),
                  "nextWave", NEXT_WAVE_DELAY)
  ELSE w

waveCheck(w) ==
  IF w.gs.isWaveActive /\ w.gs.enemiesRemainingInWave = 0
  THEN LET w1 == Logged(w, [e |-> "waveComplete", wave |-> w.gs.wave,
                            live |-> Cardinality(LiveIn(w.heap, w.enemies)),
                            gameOver |-> w.gs.isGameOver])
           w2 == [w1 EXCEPT !.gs.isWaveActive = FALSE]
       IN  setTimeout(showWaveCompletedMessage(w2), "nextWave", NEXT_WAVE_DELAY)
  ELSE w

----------------------------------------------------------------------------
(* projectiles.js (kept in enemies.js): updateProjectiles                  *)

\* one player shot: it moves, is dropped beyond maxDistance, and otherwise
\* hits at most one enemy that is neither dead nor out of health;
\* hitOf[i] = [target, part, r] is what the ray cast decides (target 0: none)
RECURSIVE updateProjectilesFrom(_, _, _, _)
updateProjectilesFrom(w, i, hitOf, kept) ==
  IF i > Len(w.projectiles) THEN [w EXCEPT !.projectiles = kept]
  ELSE LET p == [w.projectiles[i] EXCEPT
                   !.distance = w.projectiles[i].distance + PROJECTILE_STEP]
           h == hitOf[i]
           hits == h.target \in DirectTargets(w)
       IN  IF p.distance > MAX_DISTANCE
           THEN updateProjectilesFrom(w, i + 1, hitOf, kept)
           ELSE IF hits
           THEN The({updateProjectilesFrom(x, i + 1, hitOf, kept) :
                       x \in {handleEnemyHit(w, h.target, h.part, h.r)}})
           ELSE updateProjectilesFrom(w, i + 1, hitOf, Append(kept, p))

updateProjectiles(w, hitOf) ==
  IF Len(w.projectiles) = 0 \/ Len(w.enemies) = 0 THEN w
  ELSE updateProjectilesFrom(w, 1, hitOf, <<>>)

----------------------------------------------------------------------------
(* pickups: enemies.js updateAmmoPickups, weapons.js updateWeaponPickups   *)
(* and updateMP41AmmoPickups.  `near` is the set of positions of the       *)
(* pickups within 1.5 units of the player.                                 *)

\* the positions the filter passes to the collection callback
Collected(list, near) == {i \in DOMAIN list : ~list[i].collected /\ i \in near}

\* a filter that keeps the pickups it has just handed to the callback
Filtered_KeepsTaken(list, near) ==
  Without(list, {i \in DOMAIN list : list[i].collected})

\* the array the filter returns
Filtered(list, near) ==
  Without(list, {i \in DOMAIN list : list[i].collected \/ i \in near})

\* the callbacks of one filter pass, in list order: for each collected
\* pickup the log keeps whether it was already marked collected
RECURSIVE collectFrom(_, _, _, _, _)
collectFrom(w, kind, list, taken, i) ==
  IF i > Len(list) THEN w
  ELSE IF i \notin taken THEN collectFrom(w, kind, list, taken, i + 1)
  ELSE LET gs1 == IF kind = "weapon" THEN collectWeapon(w.gs, list[i].type)
                  ELSE IF kind = "mp41" THEN addAmmo(w.gs, list[i].amount, list[i].type)
                  ELSE addAmmo(w.gs, list[i].amount, STANDARD)
           w1 == Logged([w EXCEPT !.gs = gs1],
                        [e |-> "collect", kind |-> kind, at |-> i,
                         was |-> list[i].collected])
       IN  The({collectFrom(x, kind, list, taken, i + 1) : x \in {w1}})

updateAmmoPickups(w, near) ==
  IF Len(w.ammoPickups) = 0 THEN w
  ELSE [collectFrom(w, "ammo", w.ammoPickups, Collected(w.ammoPickups, near), 1)
          EXCEPT !.ammoPickups = Filtered(w.ammoPickups, near)]

\* a weapon is taken only while KeyE is held
updateWeaponPickups(w, near, keyE) ==
  IF Len(w.weaponPickups) = 0 THEN w
  ELSE LET n == IF keyE THEN near ELSE {}
       IN  [collectFrom(w, "weapon", w.weaponPickups,
                        Collected(w.weaponPickups, n), 1)
              EXCEPT !.weaponPickups = Filtered(w.weaponPickups, n)]

updateMP41AmmoPickups(w, near) ==
  IF Len(w.mp41AmmoPickups) = 0 THEN w
  ELSE [collectFrom(w, "mp41", w.mp41AmmoPickups,
                    Collected(w.mp41AmmoPickups, near), 1)
          EXCEPT !.mp41AmmoPickups = Filtered(w.mp41AmmoPickups, near)]

----------------------------------------------------------------------------
(* island.js: animate (one frame that passes the FPS cap)                  *)

\* WEAPON_CONFIG[weapon].automatic
automatic(weapon) == weapon = MP41

\* the block guarded by isPlaying && !isGameOver
animatePlaying(w, f) ==
  IF w.gs.isPlaying /\ ~w.gs.isGameOver
  THEN The({waveCheck(w3) :
              w3 \in {updateEnemyProjectiles(w2, f.ep) :
                        w2 \in {updateEnemies(w1, f.shooters) :
                                  w1 \in {updateBoats(w, f.arrive)}}}})
  ELSE w

\* the pickup updates that follow updateProjectiles
animatePickups(w, f) ==
  The({updateMP41AmmoPickups(w2, f.nearMp41) :
         w2 \in {updateWeaponPickups(w1, f.nearWeapon, f.keyE) :
                   w1 \in {updateAmmoPickups(w, f.nearAmmo)}}})

\* the trailing auto-fire: mouse held, game not over, automatic weapon
animateAutoFire(w, f) ==
  IF f.auto.on /\ ~w.gs.isGameOver /\ automatic(w.gs.currentWeapon)
  THEN shoot(w, f.auto.target, f.auto.part, f.auto.r)
  ELSE w

animate(w, f) ==
  IF w.gs.health <= 0 /\ ~w.gs.isGameOver
  THEN [showGameOver(w) EXCEPT !.gs.isGameOver = TRUE]
  ELSE The({animateAutoFire(w3, f) :
              w3 \in {animatePickups(w2, f) :
                        w2 \in {updateProjectiles(w1, f.pp) :
                                  w1 \in {animatePlaying(w, f)}}}})

----------------------------------------------------------------------------
(* The environment: what the player, the clock, the geometry and           *)
(* Math.random() may decide.  Each specification explores the program      *)
(* under one environment.                                                  *)

\* the campaign: body shots that never miss, enemies that fire, no drops
EnvMain ==
  [waves |-> 1..(MaxWave - 1), parts |-> {"body"}, miss |-> FALSE, fire |-> TRUE,
   outcomes |-> {"expire", "tree", "hit", "fly"},
   detach |-> {FALSE}, dismember |-> {FALSE}, ammoDrop |-> {FALSE},
   nw |-> {0}, nm |-> {0}, auto |-> {FALSE}, mesh |-> {TRUE},
   fail |-> {"none"}]

\* what one handleEnemyHit call may draw
HitDraws(w, env) ==
  [detach : env.detach, dismember : env.dismember, mesh : env.mesh,
   fail : env.fail,
   ammoDrop : {b \in env.ammoDrop : b => Len(w.ammoPickups) < MaxPickups},
   nw : {n \in env.nw : Len(w.weaponPickups) + n <= MaxPickups},
   nm : {n \in env.nm : Len(w.mp41AmmoPickups) + n <= MaxPickups}]

\* what one shot may meet: an enemy checkDirectHit accepts, or nothing
ShotTargets(w, env) ==
  DirectTargets(w) \cup
  (IF env.miss /\ Len(w.projectiles) < MaxProjectiles THEN {0} ELSE {})

\* shoot passes `hit.object.userData.bodyPart || 'body'`, and no mesh is
\* given a userData.bodyPart: a direct hit is a body hit
hitBodyPart == "body"

Shots(w, env) ==
  [target : ShotTargets(w, env), part : {hitBodyPart}, r : HitDraws(w, env)]

NoShot == [on |-> FALSE, target |-> 0, part |-> "body",
           r |-> [detach |-> FALSE, dismember |-> FALSE, mesh |-> TRUE,
                  ammoDrop |-> FALSE, fail |-> "none",
                  nw |-> 0, nm |-> 0]]

\* the boats that may reach the shore in a frame
Arrivals(w) ==
  IF w.gs.isPlaying /\ ~w.gs.isGameOver
  THEN SUBSET {i \in DOMAIN w.boats : ~w.boats[i].hasReachedShore}
  ELSE {{}}

\* the enemies that may fire in a frame (w: after updateBoats)
ShooterSets(w, env) ==
  IF w.gs.isPlaying /\ ~w.gs.isGameOver /\ env.fire /\ w.restarts < MaxRestarts
  THEN {S \in SUBSET Range(w.enemies) :
          Len(w.enemyProjectiles) + Cardinality(S) <= MaxEnemyProjectiles}
  ELSE {{}}

\* what may happen to each enemy shot (w: after updateEnemies)
ShotOutcomes(w, env) ==
  IF w.gs.isPlaying /\ ~w.gs.isGameOver
  THEN [DOMAIN w.enemyProjectiles -> env.outcomes]
  ELSE {[i \in DOMAIN w.enemyProjectiles |-> "fly"]}

\* what each player shot in flight may hit (w: after the playing block)
ProjectileHits(w, env) ==
  IF Len(w.projectiles) = 0 \/ Len(w.enemies) = 0
  THEN {[i \in DOMAIN w.projectiles |-> NoShot]}
  ELSE [DOMAIN w.projectiles ->
          {[on |-> FALSE, target |-> t, part |-> p, r |-> r] :
             t \in DirectTargets(w) \cup {0}, p \in env.parts,
             r \in HitDraws(w, env)}]

\* the trailing auto-fire shot (w: after the pickup updates)
AutoShots(w, env) ==
  {NoShot} \cup
  (IF TRUE \in env.auto /\ ~w.gs.isGameOver /\ automatic(w.gs.currentWeapon)
   THEN {[on |-> TRUE, target |-> x.target, part |-> x.part, r |-> x.r] :
           x \in Shots(w, env)}
   ELSE {})

----------------------------------------------------------------------------
(* Initial state: init() builds the GameState and starts the first wave.   *)

EmptyWorld ==
  [gs |-> NewGameState, heap |-> <<>>, enemies |-> <<>>, boats |-> <<>>,
   projectiles |-> <<>>, enemyProjectiles |-> <<>>, ammoPickups |-> <<>>,
   weaponPickups |-> <<>>, mp41AmmoPickups |-> <<>>, timers |-> <<>>,
   ui |-> [deathEffect |-> FALSE, kia |-> "none"], restarts |-> 0,
   log |-> <<>>]

\* the state a handler leaves: the world, garbage dropped
Is(w) ==
  /\ gameState = w.gs
  /\ heap = Collect(w)
  /\ enemies = w.enemies
  /\ activeBoats = w.boats
  /\ projectiles = w.projectiles
  /\ enemyProjectiles = w.enemyProjectiles
  /\ ammoPickups = w.ammoPickups
  /\ weaponPickups = w.weaponPickups
  /\ mp41AmmoPickups = w.mp41AmmoPickups
  /\ timers = w.timers
  /\ ui = w.ui
  /\ restarts = w.restarts
  /\ log = w.log

Becomes(w) ==
  \E v \in {w} :
    /\ gameState' = v.gs
    /\ heap' = Collect(v)
    /\ enemies' = v.enemies
    /\ activeBoats' = v.boats
    /\ projectiles' = v.projectiles
    /\ enemyProjectiles' = v.enemyProjectiles
    /\ ammoPickups' = v.ammoPickups
    /\ weaponPickups' = v.weaponPickups
    /\ mp41AmmoPickups' = v.mp41AmmoPickups
    /\ timers' = v.timers
    /\ ui' = v.ui
    /\ restarts' = v.restarts
    /\ log' = v.log

Init == Is(spawnNewWave(EmptyWorld))

----------------------------------------------------------------------------
(* Actions: one per handler the browser may run.                           *)

\* mousedown: shoot(), with the fire-rate gate open
Shoot(env) ==
  /\ ~gameState.isGameOver
  /\ gameState.wave \in env.waves
  /\ \E x \in Shots(World, env) :
       Becomes(shoot(World, x.target, x.part, x.r))

\* one frame of animate
Frame(env) ==
  \E arrive \in Arrivals(World) :
    \E wb \in {updateBoats(World, arrive)} :
      \E shooters \in ShooterSets(wb, env) :
        \E we \in {updateEnemies(wb, shooters)} :
          \E ep \in ShotOutcomes(we, env) :
            \E w1 \in {animatePlaying(World, [arrive |-> arrive,
                                                shooters |-> shooters,
                                                ep |-> ep])} :
              \E pp \in ProjectileHits(w1, env) :
                \E w2 \in {updateProjectiles(w1, pp)} :
                  \E nearAmmo \in SUBSET DOMAIN w2.ammoPickups,
                     nearWeapon \in SUBSET DOMAIN w2.weaponPickups,
                     nearMp41 \in SUBSET DOMAIN w2.mp41AmmoPickups,
                     keyE \in (IF w2.weaponPickups = <<>> THEN {FALSE}
                               ELSE BOOLEAN) :
                    \E w3 \in {animatePickups(w2, [nearAmmo |-> nearAmmo,
                                                    nearWeapon |-> nearWeapon,
                                                    nearMp41 |-> nearMp41,
                                                    keyE |-> keyE])} :
                      \E auto \in AutoShots(w3, env) :
                        Becomes(animate(World,
                                        [arrive |-> arrive, shooters |-> shooters,
                                         ep |-> ep, pp |-> pp,
                                         nearAmmo |-> nearAmmo,
                                         nearWeapon |-> nearWeapon,
                                         nearMp41 |-> nearMp41, keyE |-> keyE,
                                         auto |-> auto]))

\* the position of the timeout that runs next: the first one that is due
Due == {i \in DOMAIN timers : timers[i].due = 0}

NextDue == CHOOSE i \in Due : \A j \in Due : i <= j

WithoutTimer(w, i) == [w EXCEPT !.timers = Without(@, {i})]

\* wall-clock time passes until the next timeout is due
AdvanceTime ==
  /\ timers # <<>>
  /\ Due = {}
  /\ LET d == CHOOSE d \in {timers[i].due : i \in DOMAIN timers} :
                \A i \in DOMAIN timers : d <= timers[i].due
     IN  Becomes([World EXCEPT !.timers =
                    [i \in DOMAIN timers |->
                       [timers[i] EXCEPT !.due = timers[i].due - d]]])

\* the announcement is over: its callback spawns the wave
AnnounceDone ==
  /\ Due # {}
  /\ timers[NextDue].kind = "announce"
  /\ Becomes(The({spawnCallback(w) : w \in {WithoutTimer(World, NextDue)}}))

\* 3000 ms after a wave was completed: spawnNewWave()
NextWaveDue ==
  /\ Due # {}
  /\ timers[NextDue].kind = "nextWave"
  /\ Becomes(The({spawnNewWave(w) : w \in {WithoutTimer(World, NextDue)}}))

\* completeAnimation of the killed-in-action screen
KiaDone ==
  /\ Due # {}
  /\ timers[NextDue].kind = "kia"
  /\ Becomes([WithoutTimer(World, NextDue) EXCEPT
                !.ui.kia = IF @ = "shown" THEN "ready" ELSE @])

\* the death animation ends (its last frame, its failsafe or an error)
DeathEffectDone ==
  /\ ui.deathEffect
  /\ Becomes(showKilledInActionAnimation([World EXCEPT !.ui.deathEffect = FALSE]))

\* click on the redeploy button
Restart ==
  /\ ui.kia = "ready"
  /\ restarts < MaxRestarts
  /\ Becomes(restartGame(World))

Timers == AdvanceTime \/ AnnounceDone \/ NextWaveDue

DeathSequence == DeathEffectDone \/ KiaDone \/ Restart

Next == Shoot(EnvMain) \/ Frame(EnvMain) \/ Timers \/ DeathSequence

Spec == Init /\ [][Next]_vars

----------------------------------------------------------------------------
(* Hit resolution in late waves.  The health of a wave's enemies grows     *)
(* with the wave number, so hits that do not kill need a late wave; the    *)
(* specification below starts where the spawn callback of such a wave has  *)
(* just run, after a campaign of body shots that never missed.             *)

\* waves whose enemies have 26, 100 and 101 health
HitWaves == {58, 247, 248}

\* every part, shots that never miss, head detachment drawn; no enemy
\* fire, no drops
EnvHit ==
  [waves |-> HitWaves, parts |-> BodyParts, miss |-> FALSE, fire |-> FALSE,
   outcomes |-> {"fly"},
   detach |-> BOOLEAN, dismember |-> {FALSE}, ammoDrop |-> {FALSE},
   nw |-> {0}, nm |-> {0}, auto |-> {FALSE}, mesh |-> {TRUE},
   fail |-> {"none"}]

\* gameState when wave `wave` is announced, every earlier wave having been
\* cleared with one body shot per enemy and no damage taken
campaignState(wave) ==
  LET cleared == wave - 2
      kills == cleared * MaxEnemies
  IN  [NewGameState EXCEPT !.wave = wave,
                           !.score = kills * killScore(FALSE),
                           !.ammo = 50 - kills + 15 * cleared]

InitHit ==
  \E wave \in HitWaves :
    Is(spawnCallback([EmptyWorld EXCEPT !.gs = campaignState(wave)]))

\* window.handleEnemyHit (island.js exports the handler as a global): a call
\* on any listed enemy, corpses included
HandleEnemyHitCall(env) ==
  /\ gameState.wave \in env.waves
  /\ \E id \in Range(enemies), part \in env.parts, r \in HitDraws(World, env) :
       /\ heap[id].health > 0 - MaxOverkill
       /\ Becomes(handleEnemyHit(World, id, part, r))

NextHit == Shoot(EnvHit) \/ HandleEnemyHitCall(EnvHit)

SpecHit == InitHit /\ [][NextHit]_vars

----------------------------------------------------------------------------
(* Dismemberment: hits on the head, an arm and the body of enemies that    *)
(* survive several of them, every draw of the two dismemberment chances,   *)
(* part meshes present or missing.                                         *)

EnvDismember ==
  [waves |-> HitWaves, parts |-> {"head", "leftArm", "body"}, miss |-> FALSE,
   fire |-> FALSE, outcomes |-> {"fly"},
   detach |-> BOOLEAN, dismember |-> BOOLEAN, ammoDrop |-> {FALSE},
   nw |-> {0}, nm |-> {0}, auto |-> {FALSE}, mesh |-> BOOLEAN,
   fail |-> {"none"}]

NextDismember == HandleEnemyHitCall(EnvDismember)

SpecDismember == InitHit /\ [][NextDismember]_vars

----------------------------------------------------------------------------
(* spawnWave as a function of its arguments: a call on an empty scene for  *)
(* every wave up to MaxSpawnWave and every maxEnemies up to MaxSpawnCap    *)
(* (island.js passes MAX_ENEMIES = 20).                                    *)

\* the call about to be made
InitWave ==
  \E wave \in 1..MaxSpawnWave, maxEnemies \in 1..MaxSpawnCap :
    Is([EmptyWorld EXCEPT
          !.gs.wave = wave,
          !.log = <<[e |-> "spawnWave", wave |-> wave,
                     maxEnemies |-> maxEnemies]>>])

\* spawnWave(scene, wave, maxEnemies, ...) and the array it returns
SpawnWaveCall ==
  /\ log # <<>>
  /\ log[1].e = "spawnWave"
  /\ LET s == spawnWave(World, log[1].wave, log[1].maxEnemies,
                        BASE_ENEMY_HEALTH)
     IN  Becomes([s.w EXCEPT
                    !.enemies = s.ids,
                    !.log = <<[e |-> "spawned", wave |-> log[1].wave,
                               maxEnemies |-> log[1].maxEnemies,
                               speed |-> waveSpeed(log[1].wave,
                                                   BASE_ENEMY_SPEED)]>>])

SpecWave == InitWave /\ [][SpawnWaveCall]_vars

----------------------------------------------------------------------------
(* updateEnemies as a function of distance and time: wave 2 is ashore, the *)
(* first enemy stands at distance d from the player and last fired         *)
(* `elapsed` ago (100 ms units), the others are out of range.              *)

InitAI ==
  \E d \in 0..MaxEnemyDistance, elapsed \in 0..MaxElapsed :
    LET w0 == spawnCallback(spawnNewWave(EmptyWorld))
        w1 == updateBoats(w0, DOMAIN w0.boats)
    IN  Is([w1 EXCEPT !.timers = <<>>,
                      !.log = <<[e |-> "updateEnemies", d |-> d,
                                 elapsed |-> elapsed]>>])

UpdateEnemiesCall ==
  /\ log # <<>>
  /\ log[1].e = "updateEnemies"
  /\ LET d == log[1].d
         elapsed == log[1].elapsed
         shooters == IF enemyFires(d, elapsed) THEN {enemies[1]} ELSE {}
     IN  Becomes([updateEnemies(World, shooters) EXCEPT
                    !.log = <<[e |-> "acted", d |-> d, elapsed |-> elapsed,
                               move |-> enemyMove(d)]>>])

SpecAI == InitAI /\ [][UpdateEnemiesCall]_vars

----------------------------------------------------------------------------
(* restoreWaveCompletion as a function of the player's health and ammo,    *)
(* called the way the completion branch calls it.                          *)

RestoreAmmo == {0, 35}

InitRestore ==
  \E health \in 0..100, ammo \in RestoreAmmo :
    Is([EmptyWorld EXCEPT
          !.gs.health = health, !.gs.ammo = ammo,
          !.log = <<[e |-> "restoreWaveCompletion", health |-> health,
                     ammo |-> ammo]>>])

ShowWaveCompletedMessageCall ==
  /\ log # <<>>
  /\ log[1].e = "restoreWaveCompletion"
  /\ LET w == showWaveCompletedMessage(World)
     IN  Becomes([w EXCEPT
                    !.log = <<[e |-> "restored", health |-> log[1].health,
                               ammo |-> log[1].ammo]>> \o w.log])

SpecRestore == InitRestore /\ [][ShowWaveCompletedMessageCall]_vars

----------------------------------------------------------------------------
(* Effects that throw while a hit is resolved: direct hits on the head and *)
(* the body, each with one effect call failing or none.                    *)

EnvFail ==
  [waves |-> HitWaves, parts |-> {"head", "body"}, miss |-> FALSE,
   fire |-> FALSE, outcomes |-> {"fly"},
   detach |-> BOOLEAN, dismember |-> {FALSE}, ammoDrop |-> BOOLEAN,
   nw |-> {0}, nm |-> {0}, auto |-> {FALSE}, mesh |-> BOOLEAN,
   fail |-> {"none", "hitMarker", "hitAnimation", "deathAnimation",
             "ammoPickup"}]

\* a wave has just been spawned and the player has MaxFailShots rounds left
InitFail ==
  \E wave \in HitWaves :
    Is(spawnCallback([EmptyWorld EXCEPT
                        !.gs = [campaignState(wave) EXCEPT
                                  !.ammo = MaxFailShots]]))

NextFail == Shoot(EnvFail)

SpecFail == InitFail /\ [][NextFail]_vars

----------------------------------------------------------------------------
(* Landing: wave 2 with BoardEnemies enemies comes in two boats that reach *)
(* the shore in any order; every listed enemy the geometry puts in range   *)
(* may be the one whose cooldown is over.                                  *)

EnvBoard ==
  [waves |-> {}, parts |-> {"body"}, miss |-> FALSE, fire |-> TRUE,
   outcomes |-> {"expire", "hit", "fly"},
   detach |-> {FALSE}, dismember |-> {FALSE}, ammoDrop |-> {FALSE},
   nw |-> {0}, nm |-> {0}, auto |-> {FALSE}, mesh |-> {TRUE},
   fail |-> {"none"}]

InitBoard ==
  Is([spawnCallbackWith(spawnNewWave(EmptyWorld), BoardEnemies)
        EXCEPT !.timers = <<>>])

NextBoard == Frame(EnvBoard)

SpecBoard == InitBoard /\ [][NextBoard]_vars

----------------------------------------------------------------------------
(* Enemy-enemy collisions: the collision part of one updateEnemies pass    *)
(* over CollideEnemies enemies standing on one line, too far from the      *)
(* player to move (originalPosition is then the position the enemy has     *)
(* when its turn comes). Lengths are in units of 10^-8, positions start on *)
(* a grid of 0.2, so every product the pass takes is exact.                *)

Abs(x) == IF x < 0 THEN 0 - x ELSE x

\* Vector3.normalize on a line: the zero vector stays zero
Sgn(x) == IF x > 0 THEN 1 ELSE IF x < 0 THEN 0 - 1 ELSE 0

\* the body of the scan loop for the pair (current, i): pushFactor 0.6 for
\* the current enemy, half of it for the other
pushPair(pos, health, current, i) ==
  IF i = current \/ health[i] <= 0 THEN pos
  ELSE LET distance == Abs(pos[current] - pos[i])
           dir      == Sgn(pos[current] - pos[i])
           overlap  == minSeparation - distance
       IN  IF distance < minSeparation
           THEN [pos EXCEPT ![current] = @ + dir * ((overlap * 6) \div 10),
                            ![i]       = @ - dir * ((overlap * 3) \div 10)]
           ELSE pos

RECURSIVE scanFrom(_, _, _, _)
scanFrom(pos, health, current, i) ==
  IF i > Len(pos) THEN pos
  ELSE scanFrom(pushPair(pos, health, current, i), health, current, i + 1)

\* applyEnemyCollisions(currentEnemy, enemies, currentIndex, originalPosition)
applyEnemyCollisions(pos, health, current, originalPosition) ==
  IF health[current] <= 0 THEN pos
  ELSE LET p == scanFrom(pos, health, current, 1)
           currentDisplacement == p[current] - originalPosition
       IN  IF Abs(currentDisplacement) > maxDisplacement
           THEN [p EXCEPT ![current] = originalPosition +
                            Sgn(currentDisplacement) * maxDisplacement]
           ELSE p

\* the pass of updateEnemies, from the last enemy to the first
RECURSIVE collisionPass(_, _, _)
collisionPass(pos, health, i) ==
  IF i = 0 THEN pos
  ELSE collisionPass(applyEnemyCollisions(pos, health, i, pos[i]),
                     health, i - 1)

\* the pass about to be made
InitCollide ==
  \E pos \in [1..CollideEnemies -> {k * maxDisplacement : k \in 0..MaxGrid}],
     health \in [1..CollideEnemies -> {0, 1}] :
    Is([EmptyWorld EXCEPT
          !.log = <<[e |-> "applyEnemyCollisions", pos |-> pos,
                     health |-> health]>>])

CollisionPassCall ==
  /\ log # <<>>
  /\ log[1].e = "applyEnemyCollisions"
  /\ Becomes([World EXCEPT
                !.log = <<[e |-> "collided", before |-> log[1].pos,
                           health |-> log[1].health,
                           after |-> collisionPass(log[1].pos, log[1].health,
                                                   CollideEnemies)]>>])

SpecCollide == InitCollide /\ [][CollisionPassCall]_vars

----------------------------------------------------------------------------
(* The score of a kill as a function of the wave: the same killing hit,    *)
(* on the head or on the body, in two waves of which the second is higher. *)

\* the wave `wave` spawned on an empty scene, its first enemy one hit from
\* death
killState(wave) ==
  LET w0 == spawnCallback([EmptyWorld EXCEPT !.gs.wave = wave])
  IN  [w0 EXCEPT !.heap[w0.enemies[1]].health = 1, !.log = <<>>]

\* handleEnemyHit on that enemy
killHit(wave, isHeadshot) ==
  LET w == killState(wave)
  IN  handleEnemyHit(w, w.enemies[1], IF isHeadshot THEN "head" ELSE "body",
                     NoShot.r)

\* the calls about to be made
InitScore ==
  \E lower \in 1..MaxSpawnWave, higher \in 1..MaxSpawnWave,
     isHeadshot \in BOOLEAN :
    /\ lower < higher
    /\ Is([killState(higher) EXCEPT
             !.log = <<[e |-> "handleEnemyHit", lower |-> lower,
                        higher |-> higher, isHeadshot |-> isHeadshot]>>])

\* the killing hit in both waves; the state kept is that of the higher wave
KillHitCall ==
  /\ log # <<>>
  /\ log[1].e = "handleEnemyHit"
  /\ LET lo == killHit(log[1].lower, log[1].isHeadshot)
         hi == killHit(log[1].higher, log[1].isHeadshot)
     IN  Becomes([hi EXCEPT
                    !.log = <<[e |-> "scored", lower |-> log[1].lower,
                               higher |-> log[1].higher,
                               isHeadshot |-> log[1].isHeadshot,
                               killedLo |-> lo.heap[lo.enemies[1]].isDead,
                               killedHi |-> hi.heap[hi.enemies[1]].isDead,
                               scoreLo |-> lo.gs.score,
                               scoreHi |-> hi.gs.score]>>])

SpecScore == InitScore /\ [][KillHitCall]_vars

----------------------------------------------------------------------------
(* updateProjectiles as a function of the enemy list and of one player     *)
(* shot in flight: before the first wave has landed on the scene (no enemy *)
(* listed), with the wave ashore, and with its first enemy shot dead; the  *)
(* shot has travelled any distance it can have, and the ray cast may pick  *)
(* any listed enemy, dead or alive, or none.                               *)

\* the meshes of an enemy a ray may meet: the named limbs, the body and the
\* shoulders, the meshes of the head group, the hands and the boots
Meshes ==
  {"body", "shoulder", "head", "leftArm", "rightArm", "hand",
   "leftLeg", "rightLeg", "boot"}

\* checkEnemyHit, per-mesh ray cast: the part a mesh is taken for.  The
\* limbs go by their names; body and shoulders are the torso; the unnamed
\* meshes of the head group, the hands and the boots have a local
\* position.y below 0.9 and no 'left' in their name
meshPart(mesh) ==
  IF mesh \in {"leftArm", "rightArm", "leftLeg", "rightLeg"} THEN mesh
  ELSE IF mesh \in {"body", "shoulder"} THEN "body"
  ELSE "rightLeg"

\* what the geometry decides for one enemy: the shot is within bodyRadius
\* of the enemy's centre or not, its height above the enemy (above 1.5,
\* below 0.8, between), Math.random(), and the mesh the ray meets first
HitGeometry ==
  [near : BOOLEAN, height : {"high", "mid", "low"}, coin : BOOLEAN,
   mesh : Meshes \cup {"none"}]

\* checkEnemyHit(ray, enemy, currentPos, lastPos): the part hit, "none" for
\* null.  dismemberEnemyPart hides the mesh of the limb it detaches
\* (partMesh.visible = false); for the head it hides the group, whose
\* meshes stay visible
checkEnemyHit(enemy, c) ==
  IF enemy.isDead THEN "none"
  ELSE IF c.near
  THEN IF c.height = "high" THEN "head"
       ELSE IF c.height = "low"
       THEN IF c.coin THEN "leftLeg" ELSE "rightLeg"
       ELSE "body"
  ELSE IF c.mesh = "none" \/ c.mesh \in enemy.dismemberedParts THEN "none"
  ELSE meshPart(c.mesh)

\* a wave ashore whose first enemy has lost a leg, or its head, and lives
maimed(wave, part) ==
  LET w0 == spawnCallback([EmptyWorld EXCEPT !.gs = campaignState(wave)])
      w1 == updateBoats(w0, DOMAIN w0.boats)
  IN  handleEnemyHit(w1, w1.enemies[1], part,
                     [NoShot.r EXCEPT !.detach = TRUE, !.dismember = TRUE])

FlightWorlds ==
  LET w0 == spawnNewWave(EmptyWorld)
      w1 == spawnCallback(w0)
      w2 == updateBoats(w1, DOMAIN w1.boats)
      w3 == handleEnemyHit(w2, w2.enemies[1], "head", NoShot.r)
  IN  {w0, w2, w3} \cup
      {maimed(wave, part) : wave \in HitWaves, part \in {"head", "rightLeg"}}

\* the call about to be made
InitFlight ==
  \E w \in FlightWorlds, k \in 0..MaxFlight :
    Is([w EXCEPT !.timers = <<>>,
                 !.projectiles = <<[distance |-> k * PROJECTILE_STEP]>>,
                 !.log = <<[e |-> "updateProjectiles"]>>])

\* updateProjectiles(projectiles, enemies, scene, deltaTime)
UpdateProjectilesCall ==
  /\ log # <<>>
  /\ log[1].e = "updateProjectiles"
  /\ \E target \in Range(enemies) \cup {0}, c \in HitGeometry :
       LET part == IF target = 0 THEN "none"
                   ELSE checkEnemyHit(heap[target], c)
           hit  == [on |-> FALSE, part |-> part, r |-> NoShot.r,
                    target |-> IF part = "none" THEN 0 ELSE target]
           w    == updateProjectiles([World EXCEPT !.log = <<>>], <<hit>>)
       IN  Becomes([w EXCEPT
                      !.log = <<[e |-> "updated",
                                 distance |-> projectiles[1].distance,
                                 target |-> target, part |-> part,
                                 live |-> target \in DirectTargets(World),
                                 dismembered |->
                                   IF target = 0 THEN {}
                                   ELSE heap[target].dismemberedParts,
                                 damaged |->
                                   {id \in Range(enemies) :
                                      w.heap[id].health < heap[id].health}]>>])

SpecFlight == InitFlight /\ [][UpdateProjectilesCall]_vars

----------------------------------------------------------------------------
(* Boats: the two boats of the landing above, enemies that may be shot     *)
(* aboard or ashore, and the waves that follow, whose spawnWave clears the *)
(* boats still listed.                                                     *)

EnvBoats ==
  [waves |-> 1..(MaxWave - 1), parts |-> {"body"}, miss |-> FALSE,
   fire |-> FALSE, outcomes |-> {"fly"},
   detach |-> {FALSE}, dismember |-> {FALSE}, ammoDrop |-> {FALSE},
   nw |-> {0}, nm |-> {0}, auto |-> {FALSE}, mesh |-> {TRUE},
   fail |-> {"none"}]

SpecBoats ==
  InitBoard /\ [][Shoot(EnvBoats) \/ Frame(EnvBoats) \/ Timers]_vars

----------------------------------------------------------------------------
(* Wave progress.  animate asks for its next frame before anything else    *)
(* (requestAnimationFrame, first statement), and the browser runs every    *)
(* pending timeout once it is due: frames and timer callbacks are taken    *)
(* again and again, whatever the player does.                              *)

SpecLive ==
  Init /\ [][Next]_vars /\ WF_vars(Frame(EnvMain)) /\ WF_vars(Timers)

----------------------------------------------------------------------------
(* The pickups: kills that drop ammo, weapons and MP41 ammo, and a player  *)
(* who walks over them, holds KeyE or not, and switches weapons.           *)

\* body shots that never miss, no enemy fire, every kind of drop
EnvPickup ==
  [waves |-> 1..(MaxWave - 1), parts |-> {"body"}, miss |-> FALSE,
   fire |-> FALSE, outcomes |-> {"fly"},
   detach |-> {FALSE}, dismember |-> {FALSE}, ammoDrop |-> BOOLEAN,
   nw |-> {0, 1}, nm |-> {0, 1}, auto |-> {FALSE}, mesh |-> {TRUE},
   fail |-> {"none"}]

\* island.js keydown listener: Digit1 and Digit2 switch the weapon
keydown(w, code) ==
  LET weapon == IF code = "Digit1" THEN M1_GARAND ELSE MP41
      calls  == code = "Digit1" \/ (code = "Digit2" /\ w.gs.hasMP41)
      ret    == calls /\ switchWeaponResult(w.gs, weapon)
      w1     == IF calls THEN [w EXCEPT !.gs = switchWeapon(w.gs, weapon)] ELSE w
  IN  Logged(w1, [e |-> "keydown", code |-> code, ret |-> ret])

KeyDown ==
  \E code \in {"Digit1", "Digit2"} :
    LET w == keydown(World, code) IN Becomes(w)

NextPickup == Shoot(EnvPickup) \/ Frame(EnvPickup) \/ Timers \/ KeyDown

SpecPickup == Init /\ [][NextPickup]_vars

----------------------------------------------------------------------------
(* Running out of ammunition: the last rounds of the rifle, shots that may *)
(* miss, an MP41 picked up without any ammunition for it, weapon keys.     *)

EnvAmmo ==
  [waves |-> 1..(MaxWave - 1), parts |-> {"body"}, miss |-> TRUE,
   fire |-> FALSE, outcomes |-> {"fly"},
   detach |-> {FALSE}, dismember |-> {FALSE}, ammoDrop |-> {FALSE},
   nw |-> {0, 1}, nm |-> {0}, auto |-> {FALSE}, mesh |-> {TRUE},
   fail |-> {"none"}]

\* wave 2 has just been spawned and the player has MaxAmmo rounds or fewer
InitAmmo ==
  \E ammo \in 0..MaxAmmo :
    LET w0 == spawnCallback(spawnNewWave(EmptyWorld))
    IN  Is([w0 EXCEPT !.gs.ammo = ammo, !.timers = <<>>, !.log = <<>>])

NextAmmo == Shoot(EnvAmmo) \/ Frame(EnvAmmo) \/ KeyDown

SpecAmmo == InitAmmo /\ [][NextAmmo]_vars

----------------------------------------------------------------------------
(* Properties.                                                             *)

\* the enemies that are dead after the step and were not before it
Died == {id \in (DOMAIN heap) \cap (DOMAIN heap') :
           ~heap[id].isDead /\ heap'[id].isDead}

\* the enemies whose health the step changed: the targets of handleEnemyHit
Struck == {id \in (DOMAIN heap) \cap (DOMAIN heap') :
             heap'[id].health # heap[id].health}

Count(l, e) == Cardinality({i \in DOMAIN l : l[i].e = e})

Pending(ts, kind) == Cardinality({i \in DOMAIN ts : ts[i].kind = kind})

C3_EliminatedBeforeNextBatch ==
  \A i \in DOMAIN log :
    log[i].e \in {"spawnNewWave", "spawn"} => log[i].live = 0

\* the takeDamage calls of a log that invoked onDeath
Deaths(l) == {i \in DOMAIN l : l[i].e = "takeDamage" /\ l[i].onDeath}

\* C4: isGameOver is set by the takeDamage call that takes the player's
\* health to 0, which invokes onDeath (showGameOver); no step clears it but
\* restartGame (the only caller of reset); and no step invokes onDeath twice
\* or while isGameOver is already set, so onDeath runs at most once between
\* two resets.
C4_GameOverLatch ==
  [][/\ gameState'.health <= 0 => gameState'.isGameOver
     /\ (gameState.isGameOver /\ ~gameState'.isGameOver) =>
          Count(log', "restartGame") = 1
     /\ (~gameState.isGameOver /\ gameState'.isGameOver) =>
          Cardinality(Deaths(log')) = 1
     /\ Cardinality(Deaths(log')) <= 1
     /\ Count(log', "showGameOver") = Cardinality(Deaths(log'))
     /\ \A i \in Deaths(log') :
          /\ ~gameState.isGameOver
          /\ gameState'.isGameOver
          /\ log'[i].health = 0]_vars

\* the game is over, and has stayed over while a next-wave timeout ran
\* spawnNewWave and the redeploy button became ready
C4_Witness ==
  /\ gameState.isGameOver
  /\ ui.kia = "ready"
  /\ gameState.wave = 3
  /\ Count(log, "spawnNewWave") = 1

\* C5: in every step, no enemy's health increases, no dead enemy becomes
\* alive again, and an enemy is dead exactly if its health is <= 0: isDead
\* goes from false to true once, in the handleEnemyHit call that first takes
\* health to <= 0.
C5_EnemyHealthAndDeath ==
  [][\A id \in (DOMAIN heap) \cap (DOMAIN heap') :
       /\ heap'[id].health <= heap[id].health
       /\ heap[id].isDead => heap'[id].isDead
       /\ heap'[id].isDead <=> heap'[id].health <= 0]_vars

\* one enemy has survived a hit with 1 health left, another is a corpse whose
\* health is below 0
C5_Witness ==
  \E a, b \in Range(enemies) :
    /\ heap[a].isDead /\ heap[a].health < 0
    /\ ~heap[b].isDead /\ heap[b].health = 1

\* C6: a step that runs restartGame leaves gameState at the defaults:
\* health 100, ammo 50, wave 1, score 0, isGameOver false.
C6_RestartDefaults ==
  [][Count(log', "restartGame") = 1 =>
       /\ gameState'.health = 100
       /\ gameState'.ammo = 50
       /\ gameState'.wave = 1
       /\ gameState'.score = 0
       /\ ~gameState'.isGameOver]_vars

\* C7: a step that runs restartGame leaves every entity collection empty
\* and leaves no timer pending that was scheduled before the restart.
C7_RestartClearsAll ==
  [][Count(log', "restartGame") = 1 =>
       /\ enemies' = <<>>
       /\ projectiles' = <<>>
       /\ enemyProjectiles' = <<>>
       /\ ammoPickups' = <<>>
       /\ weaponPickups' = <<>>
       /\ mp41AmmoPickups' = <<>>
       /\ activeBoats' = <<>>
       /\ \A i \in DOMAIN timers' : timers'[i].epoch = restarts']_vars

\* C8: no enemy projectile has reduced the player's health more than once.
C8_ShotHitsAtMostOnce ==
  \A i \in DOMAIN enemyProjectiles : enemyProjectiles[i].hits <= 1

\* C9: a head hit on a live enemy kills it and awards the headshot score,
\* which is greater than a normal kill's score; a hit on a corpse awards
\* nothing.
C9_HeadshotKills ==
  [][/\ killScore(TRUE) > killScore(FALSE)
     /\ \A id \in (DOMAIN heap) \cap (DOMAIN heap') :
          /\ (~heap[id].isDead
              /\ heap'[id].health = heap[id].health - hitDamage("head")) =>
               /\ heap'[id].isDead
               /\ gameState'.score = gameState.score + killScore(TRUE)
          /\ (heap[id].isDead /\ heap'[id].health # heap[id].health) =>
               gameState'.score = gameState.score]_vars

\* the pickups of one kind that a step's callbacks collected, and those a
\* step's kills dropped
Taken(l, kind) ==
  Cardinality({i \in DOMAIN l : l[i].e = "collect" /\ l[i].kind = kind})

Made(l, kind) ==
  Cardinality({i \in DOMAIN l : l[i].e = "drop" /\ l[i].kind = kind})

\* C10: a collection callback runs only for a pickup that was not yet
\* collected; each callback takes exactly one pickup out of its list (the
\* list shrinks by the number of callbacks, after counting the step's new
\* drops), so no pickup can be collected again; and no list returned by an
\* update holds a collected pickup.
C10_CollectedOnce ==
  [][/\ \A i \in DOMAIN log' : log'[i].e = "collect" => ~log'[i].was
     /\ Len(ammoPickups') =
          Len(ammoPickups) + Made(log', "ammo") - Taken(log', "ammo")
     /\ Len(weaponPickups') =
          Len(weaponPickups) + Made(log', "weapon") - Taken(log', "weapon")
     /\ Len(mp41AmmoPickups') =
          Len(mp41AmmoPickups) + Made(log', "mp41") - Taken(log', "mp41")
     /\ \A i \in DOMAIN ammoPickups' : ~ammoPickups'[i].collected
     /\ \A i \in DOMAIN weaponPickups' : ~weaponPickups'[i].collected
     /\ \A i \in DOMAIN mp41AmmoPickups' : ~mp41AmmoPickups'[i].collected]_vars

\* a frame has collected an ammo pickup and an MP41 ammo pickup while a
\* weapon pickup the player did not take stays in its list
C10_Witness ==
  /\ Taken(log, "ammo") = 1
  /\ Taken(log, "mp41") = 1
  /\ Len(weaponPickups) = 1
  /\ ammoPickups = <<>>
  /\ gameState.ammo >= AMMO_DROP_AMOUNT
  /\ gameState.mp41Ammo = AMMO_DROP_AMOUNT

\* the dismemberEnemyPart calls of a log
Dismembers(l) == {i \in DOMAIN l : l[i].e = "dismember"}

\* C11: a dismemberEnemyPart call for a part that an earlier call has
\* marked returns false and leaves the enemy unchanged; a call that
\* returns true is the first for its part; and after any call the part is
\* marked, so every later call for it is such a second call.
C11_DismemberIdempotent ==
  [][\A i \in Dismembers(log') :
       /\ log'[i].was => (~log'[i].ret /\ log'[i].same)
       /\ log'[i].ret => ~log'[i].was
       /\ \E id \in Range(enemies') :
            log'[i].part \in heap'[id].dismemberedParts]_vars

\* a second call for an arm that is already off: refused, nothing changed
C11_Witness ==
  \E i \in Dismembers(log) :
    /\ log[i].part = "leftArm"
    /\ log[i].was /\ ~log[i].ret /\ log[i].same
    /\ \E id \in Range(enemies) :
         /\ "leftArm" \in heap[id].dismemberedParts
         /\ ~heap[id].isDead

\* the enemies of boats 1..k, in boat order
RECURSIVE Aboard(_, _)
Aboard(bs, k) == IF k = 0 THEN <<>> ELSE Aboard(bs, k - 1) \o bs[k].enemies

\* C12: spawnWave returns min(2w+3, maxEnemies) enemies on
\* min(ceil(w/2)+1, ceil(count/3)) boats; boat i (from 1) carries
\* floor(count/boats) enemies, plus one if i <= count mod boats; the loads
\* are never 0, differ by at most 1 and together are exactly the returned
\* enemies; wave 1 with maxEnemies >= 5 gives 5 enemies on 2 boats.
C12_WaveComposition ==
  (log # <<>> /\ log[1].e = "spawned") =>
    LET wave  == log[1].wave
        cap   == log[1].maxEnemies
        count == IF 2 * wave + 3 < cap THEN 2 * wave + 3 ELSE cap
        half  == (wave + 1) \div 2 + 1
        third == (count + 2) \div 3
        boats == IF half < third THEN half ELSE third
        load(i) == Len(activeBoats[i].enemies)
    IN  /\ Len(enemies) = count
        /\ Len(activeBoats) = boats
        /\ \A i \in 1..boats :
             /\ load(i) = (count \div boats) + (IF i <= count % boats THEN 1 ELSE 0)
             /\ load(i) >= 1
        /\ \A i, j \in 1..boats : load(i) - load(j) <= 1
        /\ Aboard(activeBoats, boats) = enemies
        /\ Cardinality(Range(enemies)) = count
        /\ (wave = 1 /\ cap >= 5) => (count = 5 /\ boats = 2)

\* wave 4 with maxEnemies 20: 11 enemies on 3 boats, loads 4, 4, 3
C12_Witness ==
  /\ log # <<>> /\ log[1].e = "spawned"
  /\ log[1].wave = 4 /\ log[1].maxEnemies = 20
  /\ Len(enemies) = 11
  /\ Len(activeBoats) = 3
  /\ Len(activeBoats[1].enemies) = 4
  /\ Len(activeBoats[3].enemies) = 3

\* C13: an acting enemy inside the 15-35 band strafes and fires exactly
\* when more than the cooldown has passed since its last shot; beyond 35 it
\* approaches and does not fire; below 15 it retreats.
C13_DistanceBands ==
  (log # <<>> /\ log[1].e = "acted") =>
    LET d == log[1].d
        fired == enemyProjectiles # <<>>
    IN  /\ (15 <= d /\ d <= 35) =>
             /\ log[1].move = "strafe"
             /\ fired <=> log[1].elapsed > 15
        /\ d > 35 => (log[1].move = "approach" /\ ~fired)
        /\ d < 15 => log[1].move = "retreat"

\* C14: restoreWaveCompletion called with health h in 0..100 raises health
\* by round((100 - h) / 2), halves rounding up, never beyond 100, adds
\* exactly 15 to ammo, returns these two amounts and changes nothing else;
\* h = 60 gives +20, health 80.
C14_WaveReward ==
  (log # <<>> /\ log[1].e = "restored") =>
    LET h == log[1].health
        r == log[2]
    IN  /\ r.e = "reward"
        /\ 2 * r.healthRestored \in {100 - h, 100 - h + 1}
        /\ gameState.health = h + r.healthRestored
        /\ gameState.health <= 100
        /\ r.ammoRestored = 15
        /\ gameState.ammo = log[1].ammo + 15
        /\ gameState = [NewGameState EXCEPT !.health = gameState.health,
                                            !.ammo = gameState.ammo]
        /\ h = 60 => (r.healthRestored = 20 /\ gameState.health = 80)

\* the reward for health 60 and for an odd amount of missing health
C14_Witness ==
  /\ log # <<>> /\ log[1].e = "restored"
  /\ \/ log[1].health = 60 /\ gameState.health = 80
     \/ log[1].health = 95 /\ gameState.health = 98 /\ log[2].healthRestored = 3

\* C15: a shoot call made while the current weapon has no ammo does not
\* fire (lastFireTime is not assigned) and, as the whole step, changes
\* nothing: no ammo used, no projectile, no hit; a Digit2 key without an
\* MP41 switches nothing and reports no success.
C15_RejectedCommands ==
  [][\A i \in DOMAIN log' :
       /\ (log'[i].e = "shoot" /\ log'[i].ammo <= 0) =>
            /\ ~log'[i].fired
            /\ Len(log') = 1 =>
                 /\ gameState' = gameState
                 /\ projectiles' = projectiles
                 /\ heap' = heap
                 /\ enemies' = enemies
                 /\ weaponPickups' = weaponPickups
       /\ (log'[i].e = "keydown" /\ log'[i].code = "Digit2"
           /\ ~gameState.hasMP41) =>
            /\ ~log'[i].ret
            /\ gameState' = gameState]_vars

\* the player holds an MP41 without ammunition for it, still has rifle
\* rounds, and a shot has just been refused
C15_Witness ==
  /\ log = <<[e |-> "shoot", ammo |-> 0, fired |-> FALSE]>>
  /\ gameState.currentWeapon = MP41
  /\ gameState.mp41Ammo = 0
  /\ gameState.ammo > 0
  /\ LiveIn(heap, enemies) # {}

\* C16: when an effect call throws while a hit on a live enemy is resolved,
\* the hit's damage is applied all the same, and if it takes the health to
\* 0 or below the enemy is dead, the counter is decremented and the score
\* is raised.
C16_EffectFailureKeepsBookkeeping ==
  [][\A i \in DOMAIN log' :
       (log'[i].e = "throw" /\ ~log'[i].wasDead) =>
         LET t == log'[i]
             after == t.health - hitDamage(t.part)
         IN  /\ heap'[t.id].health = after
             /\ after <= 0 =>
                  /\ heap'[t.id].isDead
                  /\ gameState'.enemiesRemainingInWave = t.remaining - 1
                  /\ gameState'.score = t.score + killScore(t.part = "head")]_vars

\* C17: a dismemberEnemyPart call that returns false leaves the enemy as
\* it was, its dismemberedParts included.
C17_FailedDismemberChangesNothing ==
  [][\A i \in Dismembers(log') : ~log'[i].ret => log'[i].same]_vars

C19_StaggeredDisembark ==
  [][\A b \in DOMAIN activeBoats :
       (/\ ~activeBoats[b].hasReachedShore
        /\ \E c \in DOMAIN activeBoats' :
             /\ activeBoats'[c].enemies = activeBoats[b].enemies
             /\ activeBoats'[c].hasReachedShore) =>
         \A i \in 2..Len(activeBoats[b].enemies) :
           LET id == activeBoats[b].enemies[i]
           IN  (id \in DOMAIN heap' /\ ~heap'[id].isDead) =>
                 ~heap'[id].disembarked]_vars

\* the shoot calls of a log that fired
Fired(l) == Cardinality({i \in DOMAIN l : l[i].e = "shoot" /\ l[i].fired})

\* the rounds the wave rewards of a log add to the standard ledger
Rewarded(l) ==
  LET R == {i \in DOMAIN l : l[i].e = "reward"}
  IN  IF R = {} THEN 0
      ELSE Cardinality(R) * l[CHOOSE i \in R : TRUE].ammoRestored

\* C20: standard and MP41 ammo are separate ledgers: a shot that fires takes
\* one round from the ledger of the current weapon and none from the other,
\* a pickup adds its amount to the ledger of its ammo type only, and neither
\* ledger is ever negative.
C20_SeparateLedgers ==
  [][LET std == IF gameState.currentWeapon = MP41 THEN 0 ELSE Fired(log')
         mp  == Fired(log') - std
     IN  /\ gameState'.ammo =
              gameState.ammo - std + AMMO_DROP_AMOUNT * Taken(log', "ammo")
                + Rewarded(log')
         /\ gameState'.mp41Ammo =
              gameState.mp41Ammo - mp + AMMO_DROP_AMOUNT * Taken(log', "mp41")
         /\ gameState'.ammo >= 0
         /\ gameState'.mp41Ammo >= 0]_vars

\* a shot has just been fired with the MP41 from a ledger filled by one
\* pickup, the rifle's rounds untouched by it
C20_Witness ==
  /\ Fired(log) = 1
  /\ gameState.currentWeapon = MP41
  /\ gameState.mp41Ammo = AMMO_DROP_AMOUNT - 1
  /\ gameState.ammo > 0

\* C21: after a pass, two live enemies that were closer than minSeparation
\* are farther apart than before, and no enemy has moved by more than
\* maxDisplacement.
C21_CollisionSeparates ==
  (log # <<>> /\ log[1].e = "collided") =>
    LET b == log[1].before
        a == log[1].after
        h == log[1].health
    IN  /\ \A i, j \in DOMAIN b :
             (i # j /\ h[i] > 0 /\ h[j] > 0
                /\ Abs(b[i] - b[j]) < minSeparation) =>
               Abs(a[i] - a[j]) > Abs(b[i] - b[j])
        /\ \A i \in DOMAIN b : Abs(a[i] - b[i]) <= maxDisplacement

\* C22: the score a kill adds in a higher wave is greater than the score
\* the same kind of kill adds in a lower wave.
C22_ScoreGrowsWithWave ==
  (log # <<>> /\ log[1].e = "scored"
     /\ log[1].killedLo /\ log[1].killedHi) =>
    log[1].scoreHi > log[1].scoreLo

\* C23: the enemies spawned for wave w + 1 are more numerous, healthier and
\* faster than those spawned for wave w.
C23_DifficultyGrows ==
  (log # <<>> /\ log[1].e = "spawned" /\ log[1].maxEnemies = MAX_ENEMIES) =>
    LET next == log[1].wave + 1
    IN  /\ Len(enemies) < enemiesForWave(next, MAX_ENEMIES)
        /\ \A id \in Range(enemies) :
             heap[id].health < waveHealth(next, BASE_ENEMY_HEALTH)
        /\ log[1].speed < waveSpeed(next, BASE_ENEMY_SPEED)

\* C24: a tick advances a player shot by its step; the shot leaves the list
\* in the tick in which it passes maxDistance or hits, and is kept
\* otherwise; it damages at most one enemy, and only a live one the ray met.
C24_ProjectileFlight ==
  (log # <<>> /\ log[1].e = "updated") =>
    LET d    == log[1].distance + PROJECTILE_STEP
        hits == log[1].live /\ log[1].part # "none"
        ends == d > MAX_DISTANCE \/ hits
    IN  /\ ends => projectiles = <<>>
        /\ ~ends => projectiles = <<[distance |-> d]>>
        /\ log[1].damaged \subseteq (IF hits THEN {log[1].target} ELSE {})

\* C25: a hit that updateProjectiles finds on an enemy is never classified
\* as a part that enemy has already lost.
C25_DismemberedPartNotHit ==
  (log # <<>> /\ log[1].e = "updated" /\ log[1].live
     /\ log[1].part # "none") =>
    log[1].part \notin log[1].dismembered

BoatStep(cleared) ==
  \A i \in DOMAIN activeBoats :
    LET b     == activeBoats[i]
        After(x) ==
          {j \in DOMAIN activeBoats' : activeBoats'[j].enemies = x.enemies}
        calls == Cardinality({k \in DOMAIN log' :
                                /\ log'[k].e = "disembarkEnemies"
                                /\ log'[k].boat = b.enemies})
    IN  /\ calls = IF /\ ~b.hasReachedShore
                      /\ \E j \in After(b) : activeBoats'[j].hasReachedShore
                   THEN 1 ELSE 0
        /\ \A j \in After(b) :
             LET c == activeBoats'[j]
             IN  /\ b.hasReachedShore => c.hasReachedShore
                 /\ b.enemiesDisembarked => c.enemiesDisembarked
                 /\ c.enemiesDisembarked => b.hasReachedShore
                 /\ (~b.enemiesDisembarked /\ c.enemiesDisembarked) =>
                      \A id \in Range(b.enemies) :
                        heap[id].disembarked \/ heap[id].isDead
                 /\ c.removalTimer > 0 => b.enemiesDisembarked
        /\ After(b) = {} =>
             \/ /\ b.enemiesDisembarked
                /\ b.removalTimer + 1 >= BoatRemovalFrames
             \/ cleared

----------------------------------------------------------------------------
(* C28: whenever a wave is active, gameState.enemiesRemainingInWave equals *)
(* the number of enemies in the enemy list whose isDead is false, in       *)
(* every state the handlers (frames, hits, corpse removal, game over,      *)
(* restart, timer callbacks) can reach.                                    *)
C28_CounterCountsLiveEnemies ==
  gameState.isWaveActive =>
    gameState.enemiesRemainingInWave = Cardinality(LiveIn(heap, enemies))

\* C29: in every step that ends with isGameOver set (so every step from the
\* death up to, not including, restartGame), the player's health is 0
\* afterwards, no wave-completion reward is applied, gameState.wave is
\* unchanged, and neither spawnNewWave nor the spawn callback runs; this
\* includes the frame of the death itself and the timeouts pending then.
C29_GameOverFreezes ==
  [][gameState'.isGameOver =>
       /\ gameState'.health = 0
       /\ gameState'.wave = gameState.wave
       /\ Count(log', "reward") = 0
       /\ Count(log', "spawnNewWave") = 0
       /\ Count(log', "spawn") = 0]_vars

\* C30: while frames and timers keep running, once every enemy of the
\* active wave has been killed (the wave is active and every listed enemy
\* is dead), either the game is over at some later point
\* or the wave completes and the enemies of a later wave are spawned (a
\* wave with a higher number is active, with live enemies listed); so a
\* wave never stays active with a counter that cannot reach 0.
C30_WaveProgressIsLive ==
  \A n \in 1..MaxWave :
    (/\ gameState.isWaveActive
     /\ gameState.wave = n
     /\ enemies # <<>>
     /\ LiveIn(heap, enemies) = {}) ~>
      \/ gameState.isGameOver
      \/ /\ gameState.isWaveActive
         /\ gameState.wave > n
         /\ LiveIn(heap, enemies) # {}

====
